---- MODULE Spec2Model ----
(***************************************************************************)
(* Model of iac/mongo/elt_mongodb_n_collections.py: a script that lists    *)
(* the collections of a MongoDB database, reads each one into a DataFrame, *)
(* drops the _id column, serializes it to CSV and uploads the file into a  *)
(* timestamped directory of an Azure Data Lake file system.                *)
(*                                                                         *)
(* One invocation of the script is a "run".  Two runs are modelled, one    *)
(* after the other, against the same environment, wall clock and           *)
(* destination store, because the destination store outlives a run.       *)
(***************************************************************************)
EXTENDS Integers, Sequences, FiniteSets, TLC

(***************************************************************************)
(* Bounds of the model.                                                    *)
(***************************************************************************)
\* longest list of collections list_collection_names() returns
MaxUnits == 2
\* the wall clock shows seconds 0..MaxClock after ClockOrigin
MaxClock == 1

\* The runs: the script is invoked, and later invoked again.
Runs == <<"first", "second">>

\* The collections the source database may hold, in catalog order.
Catalog == <<"orders", "empty_coll", "users">>

\* 2024-01-01 23:59:59, so that one tick of the clock changes every field
\* of the timestamp but the year and the month.
ClockOrigin == 23 * 3600 + 59 * 60 + 59

None == "<None>"

(***************************************************************************)
(* Documents are ordered mappings: sequences of <<field, value>> pairs.    *)
(* find({}) returns one of these lists; the last one is what a view that   *)
(* projects _id away returns.                                              *)
(***************************************************************************)
DocA == << <<"_id", "1">>, <<"a", "x">> >>
DocB == << <<"_id", "2">>, <<"b", "y">> >>
DocIdOnly == << <<"_id", "3">> >>
DocNoId == << <<"a", "z">> >>

FindResults == { <<>>, <<DocIdOnly>>, <<DocA, DocB>>, <<DocNoId>> }

CountResults == { Len(r) : r \in FindResults }

(***************************************************************************)
(* Exceptions the stores raise; each is a subclass of Exception.  The      *)
(* SystemExit that sys.exit raises is a BaseException and no Exception.    *)
(***************************************************************************)
MongoErrors == {"ConnectionFailure", "OperationFailure", "Exception"}
AzureErrors == {"ResourceNotFoundError", "ResourceExistsError",
                "ClientAuthenticationError", "Exception"}

(***************************************************************************)
(* Environment, lines 39-61.                                               *)
(***************************************************************************)
RequiredKeys == <<"MONGODB_URI", "MONGODB_DATABASE", "ADLS_ACCOUNT_NAME",
                  "ADLS_FILE_SYSTEM_NAME", "ADLS_SAS_TOKEN">>

GoodEnv == [MONGODB_URI |-> "mongodb://h", MONGODB_DATABASE |-> "mydb",
            ADLS_ACCOUNT_NAME |-> "acct", ADLS_FILE_SYSTEM_NAME |-> "fs",
            ADLS_SAS_TOKEN |-> "sas", ADLS_DIRECTORY_NAME |-> None]

EnvChoices ==
    { [GoodEnv EXCEPT !.ADLS_DIRECTORY_NAME = d] : d \in {None, "lake"} }
    \cup { [GoodEnv EXCEPT ![RequiredKeys[i]] = v] :
              i \in 1..Len(RequiredKeys), v \in {None, ""} }
    \cup { [GoodEnv EXCEPT !.MONGODB_URI = None, !.ADLS_SAS_TOKEN = ""] }

\* os.getenv(key, default)
getenv(e, key, default) == IF e[key] = None THEN default ELSE e[key]

\* Python truthiness of an optional string
Falsy(v) == v = None \/ v = ""

RECURSIVE MissingFrom(_, _)
MissingFrom(e, keys) ==
    IF keys = <<>> THEN <<>>
    ELSE (IF Falsy(e[Head(keys)]) THEN <<Head(keys)>> ELSE <<>>)
         \o MissingFrom(e, Tail(keys))

\* line 58
MissingVars(e) == MissingFrom(e, RequiredKeys)

\* variant: ADLS_DIRECTORY_NAME is not read
DirectoryNameDatabaseOnly(e) == getenv(e, "MONGODB_DATABASE", None)

\* line 46
DirectoryName(e) == getenv(e, "ADLS_DIRECTORY_NAME", getenv(e, "MONGODB_DATABASE", None))

(***************************************************************************)
(* datetime.now().strftime("%Y%m%d_%H%M%S"), line 100.                     *)
(***************************************************************************)
D2(n) == ToString(n \div 10) \o ToString(n % 10)

Strftime(t) ==
    LET s == ClockOrigin + t
        day == 1 + s \div 86400
        sod == s % 86400
    IN "202401" \o D2(day) \o "_" \o D2(sod \div 3600)
          \o D2((sod % 3600) \div 60) \o D2(sod % 60)

\* variant: the timestamp is left out of the path
DirectoryPathNoStamp(dir, ts) == dir

\* line 101
DirectoryPath(dir, ts) == dir \o "/" \o ts

(***************************************************************************)
(* pandas, lines 129-142.                                                  *)
(***************************************************************************)
InSeq(x, s) == \E i \in 1..Len(s) : s[i] = x

RECURSIVE AppendNew(_, _)
AppendNew(cols, doc) ==
    IF doc = <<>> THEN cols
    ELSE AppendNew(IF InSeq(Head(doc)[1], cols) THEN cols
                   ELSE Append(cols, Head(doc)[1]), Tail(doc))

RECURSIVE ColumnsOf(_, _)
ColumnsOf(cols, docs) ==
    IF docs = <<>> THEN cols
    ELSE ColumnsOf(AppendNew(cols, Head(docs)), Tail(docs))

\* pd.DataFrame(list(cursor)): the columns are the keys in first-seen order
DataFrame(docs) == [columns |-> ColumnsOf(<<>>, docs), rows |-> docs]

NoFrame == DataFrame(<<>>)

DropPair(row, label) ==
    LET Keep(kv) == kv[1] # label IN SelectSeq(row, Keep)

\* df.drop(label, axis=1)
Drop(frame, label) ==
    LET Keep(c) == c # label
    IN [columns |-> SelectSeq(frame.columns, Keep),
        rows |-> [i \in 1..Len(frame.rows) |-> DropPair(frame.rows[i], label)]]

\* variant: the _id column is kept
DropIdKeeps(frame) == frame

\* lines 132-133
DropId(frame) == IF InSeq("_id", frame.columns) THEN Drop(frame, "_id") ELSE frame

\* df.empty: some axis has length 0
Empty(frame) == Len(frame.columns) = 0 \/ Len(frame.rows) = 0

\* the cell of a row under a column; a missing value is written as nothing
Cell(row, c) ==
    IF \E i \in 1..Len(row) : row[i][1] = c
    THEN row[CHOOSE i \in 1..Len(row) : row[i][1] = c][2]
    ELSE ""

\* df.to_csv(index=False).encode('utf-8'): the header line, then one line per
\* row; a line is kept as the sequence of its comma-separated cells
to_csv(frame) ==
    <<frame.columns>> \o
    [i \in 1..Len(frame.rows) |->
        [j \in 1..Len(frame.columns) |-> Cell(frame.rows[i], frame.columns[j])]]

NoData == <<>>

\* line 141
\* variant: every collection is written to the same file name
FileNameFixed(collection_name) == "data.csv"

FileName(collection_name) == collection_name \o ".csv"

(***************************************************************************)
(* list_collection_names(), line 75: any sub-list of the catalog that is   *)
(* no longer than MaxUnits; names are unique.                              *)
(***************************************************************************)
RECURSIVE Pick(_, _)
Pick(S, i) ==
    IF i > Len(Catalog) THEN <<>>
    ELSE (IF i \in S THEN <<Catalog[i]>> ELSE <<>>) \o Pick(S, i + 1)

UnitLists ==
    { Pick(S, 1) : S \in { T \in SUBSET (1..Len(Catalog)) : Cardinality(T) <= MaxUnits } }

(***************************************************************************)
(* The destination store.  dirs is the set of directory paths that exist,  *)
(* files maps <<directory path, file name>> to the bytes stored there.     *)
(***************************************************************************)
\* DataLakeDirectoryClient.create_directory(): "ok" or the error raised.  On
\* an existing directory the service either reports it or accepts the call.
create_directory(ds, path) ==
    IF path \in ds THEN { [raised |-> "ResourceExistsError", dirs |-> ds],
                          [raised |-> "ok", dirs |-> ds] }
    ELSE { [raised |-> "ok", dirs |-> ds \cup {path}] }

\* variant: the overwrite flag is not honoured
upload_data_no_overwrite(fs, key, bytes, overwrite) ==
    IF key \in DOMAIN fs
    THEN [raised |-> "ResourceExistsError", files |-> fs]
    ELSE [raised |-> "ok",
          files |-> [k \in DOMAIN fs \cup {key} |-> IF k = key THEN bytes ELSE fs[k]]]

\* DataLakeFileClient.upload_data(data, overwrite)
upload_data(fs, key, bytes, overwrite) ==
    IF key \in DOMAIN fs /\ ~overwrite
    THEN [raised |-> "ResourceExistsError", files |-> fs]
    ELSE [raised |-> "ok",
          files |-> [k \in DOMAIN fs \cup {key} |-> IF k = key THEN bytes ELSE fs[k]]]

NoFiles == [k \in {} |-> NoData]

(***************************************************************************)
(* State.                                                                  *)
(***************************************************************************)
VARIABLES
    \* what outlives a run
    env,            \* the environment of the process (os.getenv)
    clock,          \* the wall clock, in seconds after ClockOrigin
    dirs, files,    \* the destination store
    hist,           \* the earlier runs that named a batch directory
    run,            \* which run this is
    \* the script's variables and position
    pc, missing_vars, client, collections, idx, doc_count, df, data,
    timestamp, directory_path, successful_collections, failed_collections,
    pending,        \* the exception in flight towards "finally", or "none"
    exit_code,      \* the process's exit code, -1 while it runs
    \* what the run wrote to its log
    outcome,        \* per processed collection: "ok", "zero", "empty", "error"
    summary,        \* the summary lines (line 153)
    fatal,          \* the error logged by the handler that ended the run
    dirLog,         \* "created" (line 106) or "exists" (line 108)
    finished,       \* the last line of the script was logged (line 179)
    closes,         \* how many times client.close() was called
    \* history variables
    started,        \* the clock when the process started
    stampClock,     \* the clock when line 100 read it
    injected,       \* collections during which a call raised
    batch,          \* the documents line 129 read for this collection
    authFault,      \* the step at which the destination refused the token
    calls,          \* the calls made to the two stores before the loop
    dirPre,         \* the batch directory existed when line 105 ran
    files0,         \* the files of the store when the run started
    written         \* the files this run uploaded

worldV == <<env, clock, hist, run>>
storeV == <<dirs, files, written>>
setupV == <<missing_vars, client, collections, timestamp, directory_path,
            stampClock, dirLog, dirPre>>
loopV  == <<idx, doc_count, df, data, successful_collections, failed_collections,
            outcome, injected, batch>>
endV   == <<summary, finished, closes, exit_code>>
histV  == <<started, files0>>

vars == <<env, clock, dirs, files, hist, run,
          pc, missing_vars, client, collections, idx, doc_count, df, data,
          timestamp, directory_path, successful_collections, failed_collections,
          pending, exit_code, outcome, summary, fatal, dirLog, finished, closes,
          started, stampClock, injected, batch, authFault, calls, dirPre, files0, written>>

\* a fresh process
Fresh ==
    /\ pc = "start" /\ missing_vars = <<>> /\ client = "undefined"
    /\ collections = <<>> /\ idx = 0 /\ doc_count = 0 /\ df = NoFrame
    /\ data = NoData /\ timestamp = "" /\ directory_path = ""
    /\ successful_collections = 0 /\ failed_collections = 0
    /\ pending = "none" /\ exit_code = -1
    /\ outcome = <<>> /\ summary = <<>> /\ fatal = "none" /\ dirLog = "none"
    /\ finished = FALSE /\ closes = 0
    /\ stampClock = 0 /\ injected = {} /\ batch = <<>> /\ authFault = "none" /\ dirPre = FALSE
    /\ calls = <<>>
    /\ written = {}

Init ==
    /\ env \in EnvChoices
    /\ clock = 0 /\ dirs = {} /\ files = NoFiles /\ hist = <<>> /\ run = Runs[1]
    /\ Fresh
    /\ started = 0 /\ files0 = NoFiles

(***************************************************************************)
(* Exception handlers.                                                     *)
(***************************************************************************)
\* logger.error(msg); sys.exit(1) before the try statement (lines 37, 61):
\* nothing is open, the process ends at once
ExitNow(msg) ==
    /\ fatal' = msg /\ exit_code' = 1 /\ pc' = "exited"
    /\ UNCHANGED <<worldV, storeV, loopV, histV, pending, authFault, calls,
                   client, collections, timestamp, directory_path, stampClock,
                   dirLog, dirPre, summary, finished, closes>>

\* variant: the error is logged and the script goes on to its end
SysExitOnlyLogs(msg) ==
    /\ fatal' = msg /\ pc' = "finally"
    /\ UNCHANGED <<worldV, storeV, setupV, loopV, endV, histV, pending>>

\* logger.error(msg); sys.exit(1) inside the try statement: SystemExit is no
\* Exception, so no except clause of lines 155-173 takes it and it reaches
\* the finally clause
SysExit(msg) ==
    /\ fatal' = msg /\ pending' = "SystemExit" /\ pc' = "finally"
    /\ UNCHANGED <<worldV, storeV, setupV, loopV, endV, histV>>

\* lines 162-173
ExceptOuter(e) ==
    IF e = "ConnectionFailure" THEN SysExit("mongo_connection")
    ELSE IF e = "OperationFailure" THEN SysExit("mongo_operation")
    ELSE SysExit("unexpected")

\* lines 155-160
ExceptInner(e) ==
    IF e = "ClientAuthenticationError" THEN SysExit("adls_auth")
    ELSE SysExit("adls_error")

\* variant: a missing file system is logged and the run goes on
ExceptFsPropsContinues(e) ==
    /\ fatal' = "fs_not_found" /\ pc' = "stamp"
    /\ UNCHANGED <<worldV, storeV, setupV, loopV, endV, histV, pending>>

\* lines 95-97
ExceptFsProps(e) ==
    IF e = "ResourceNotFoundError" THEN SysExit("fs_not_found")
    ELSE ExceptInner(e)

\* variant: no handler around the loop body, the error ends the run
ExceptUnitAborts(e) ==
    /\ fatal' = "adls_error" /\ pending' = "SystemExit" /\ pc' = "finally"
    /\ UNCHANGED <<worldV, storeV, setupV, endV, histV, idx, batch, doc_count, df,
                   data, successful_collections, failed_collections, outcome>>

\* lines 148-150: the collection failed, the loop goes on
ExceptUnit(e) ==
    /\ failed_collections' = failed_collections + 1
    /\ outcome' = Append(outcome, "error")
    /\ pc' = "for"
    /\ UNCHANGED <<worldV, storeV, setupV, endV, histV, idx, batch, doc_count, df, data,
                   successful_collections, pending, fatal>>

(***************************************************************************)
(* Start-up, lines 29-61.                                                  *)
(***************************************************************************)
LoadDotenv ==
    /\ pc = "start"
    /\ \E found \in {"file", "auto", "none"} :
          IF found = "none" THEN ExitNow("no_dotenv") /\ UNCHANGED missing_vars
          ELSE /\ pc' = "config"
               /\ UNCHANGED <<worldV, storeV, setupV, loopV, endV, histV,
                              pending, fatal, authFault, calls>>

ReadConfig ==
    /\ pc = "config"
    /\ missing_vars' = MissingVars(env)
    /\ IF missing_vars' # <<>> THEN ExitNow("missing_vars")
       ELSE /\ pc' = "connect"
            /\ UNCHANGED <<worldV, storeV, loopV, endV, histV, pending, fatal,
                           authFault, calls, client, collections, timestamp,
                           directory_path, stampClock, dirLog, dirPre>>

(***************************************************************************)
(* Source store, lines 63-78.                                              *)
(***************************************************************************)
Connect ==
    /\ pc = "connect"
    /\ \/ ExceptOuter("Exception") /\ UNCHANGED <<authFault, calls>>
       \/ /\ client' = "open" /\ pc' = "ping"
          /\ UNCHANGED <<worldV, storeV, loopV, endV, histV, pending, fatal,
                         authFault, calls, missing_vars, collections, timestamp,
                         directory_path, stampClock, dirLog, dirPre>>

Ping ==
    /\ pc = "ping"
    /\ calls' = Append(calls, "ping")
    /\ \/ \E e \in MongoErrors : ExceptOuter(e) /\ UNCHANGED authFault
       \/ /\ pc' = "list"
          /\ UNCHANGED <<worldV, storeV, setupV, loopV, endV, histV, pending,
                         fatal, authFault>>

\* variant: a database without collections ends the run
ListCollectionsEmptyFatal ==
    /\ pc = "list"
    /\ calls' = Append(calls, "list")
    /\ \/ \E e \in MongoErrors : ExceptOuter(e) /\ UNCHANGED authFault
       \/ \E cs \in UnitLists :
             IF cs = <<>> THEN SysExit("no_collections") /\ UNCHANGED authFault
             ELSE /\ collections' = cs /\ pc' = "adls_client"
                  /\ UNCHANGED <<worldV, storeV, loopV, endV, histV, pending,
                                 fatal, authFault, missing_vars, client,
                                 timestamp, directory_path, stampClock, dirLog,
                                 dirPre>>

ListCollections ==
    /\ pc = "list"
    /\ calls' = Append(calls, "list")
    /\ \/ \E e \in MongoErrors : ExceptOuter(e) /\ UNCHANGED authFault
       \/ \E cs \in UnitLists :
             /\ collections' = cs /\ pc' = "adls_client"
             /\ UNCHANGED <<worldV, storeV, loopV, endV, histV, pending, fatal,
                            authFault, missing_vars, client, timestamp,
                            directory_path, stampClock, dirLog, dirPre>>

(***************************************************************************)
(* Destination store, lines 80-112.                                        *)
(***************************************************************************)
\* variant: the file system is not checked before the directory is made
AdlsClientNoCheck ==
    /\ pc = "adls_client"
    /\ \/ ExceptInner("Exception") /\ UNCHANGED <<authFault, calls>>
       \/ /\ pc' = "stamp"
          /\ UNCHANGED <<worldV, storeV, setupV, loopV, endV, histV, pending,
                         fatal, authFault, calls>>

AdlsClient ==
    /\ pc = "adls_client"
    /\ \/ ExceptInner("Exception") /\ UNCHANGED <<authFault, calls>>
       \/ /\ pc' = "fs_props"
          /\ UNCHANGED <<worldV, storeV, setupV, loopV, endV, histV, pending,
                         fatal, authFault, calls>>

FsProps ==
    /\ pc = "fs_props"
    /\ calls' = Append(calls, "fs_props")
    /\ \/ \E e \in AzureErrors :
             /\ ExceptFsProps(e)
             /\ authFault' = IF e = "ClientAuthenticationError" THEN "fs_props"
                             ELSE authFault
       \/ /\ pc' = "stamp"
          /\ UNCHANGED <<worldV, storeV, setupV, loopV, endV, histV, pending,
                         fatal, authFault>>

\* lines 100-101
Timestamp ==
    /\ pc = "stamp"
    /\ timestamp' = Strftime(clock)
    /\ stampClock' = clock
    /\ directory_path' = DirectoryPath(DirectoryName(env), timestamp')
    /\ pc' = "mkdir"
    /\ UNCHANGED <<worldV, storeV, loopV, endV, histV, pending, fatal, authFault, calls,
                   missing_vars, client, collections, dirLog, dirPre>>

\* variant: an existing batch directory ends the run
ExceptMkdirFatal(e) ==
    IF e = "ResourceExistsError"
    THEN /\ fatal' = "adls_error" /\ pending' = "SystemExit" /\ pc' = "finally"
         /\ UNCHANGED <<worldV, storeV, loopV, endV, histV, missing_vars, client,
                        collections, timestamp, directory_path, stampClock,
                        dirLog>>
    ELSE ExceptInner(e) /\ UNCHANGED dirPre

\* lines 107-108 and the fall-through to lines 111-112
ExceptMkdir(e) ==
    IF e = "ResourceExistsError"
    THEN /\ dirLog' = "exists" /\ pc' = "for"
         /\ UNCHANGED <<worldV, storeV, loopV, endV, histV, pending, fatal,
                        missing_vars, client, collections, timestamp,
                        directory_path, stampClock>>
    ELSE ExceptInner(e) /\ UNCHANGED dirPre

\* lines 103-112
MakeDirectory ==
    /\ pc = "mkdir"
    /\ calls' = Append(calls, "create_directory")
    /\ \/ \E e \in AzureErrors \ {"ResourceExistsError"} :
             /\ ExceptMkdir(e)
             /\ authFault' = IF e = "ClientAuthenticationError" THEN "mkdir"
                             ELSE authFault
       \/ \E r \in create_directory(dirs, directory_path) :
             /\ dirPre' = (directory_path \in dirs)
             /\ UNCHANGED authFault
             /\ IF r.raised = "ok"
                THEN /\ dirs' = r.dirs /\ dirLog' = "created" /\ pc' = "for"
                     /\ UNCHANGED <<worldV, files, written, loopV, endV, histV,
                                    pending, fatal, missing_vars, client,
                                    collections, timestamp, directory_path,
                                    stampClock>>
                ELSE ExceptMkdir(r.raised)

(***************************************************************************)
(* The loop over the collections, lines 114-150.                           *)
(***************************************************************************)
\* variant: the file system is checked again for every collection
ForNextChecksContainer ==
    /\ pc = "for"
    /\ doc_count' = 0 /\ df' = NoFrame /\ data' = NoData /\ batch' = <<>>
    /\ IF idx < Len(collections)
       THEN idx' = idx + 1 /\ pc' = "count" /\ calls' = Append(calls, "fs_props")
       ELSE idx' = idx /\ pc' = "summary" /\ calls' = calls
    /\ UNCHANGED <<worldV, storeV, setupV, endV, histV, pending, fatal, authFault,
                   successful_collections, failed_collections, outcome, injected>>

\* line 114; df, data and doc_count are dead between two collections and are
\* cleared here
ForNext ==
    /\ pc = "for"
    /\ doc_count' = 0 /\ df' = NoFrame /\ data' = NoData /\ batch' = <<>>
    /\ IF idx < Len(collections)
       THEN idx' = idx + 1 /\ pc' = "count"
       ELSE idx' = idx /\ pc' = "summary"
    /\ UNCHANGED <<worldV, storeV, setupV, endV, histV, pending, fatal, authFault, calls,
                   successful_collections, failed_collections, outcome, injected>>

\* a call of the loop body raised e: lines 148-150
Raise(e) ==
    /\ ExceptUnit(e)
    /\ injected' = injected \cup {idx}

\* variant: a skipped collection is counted as failed
SkipCountsFailure(why) ==
    /\ outcome' = Append(outcome, why) /\ pc' = "for"
    /\ failed_collections' = failed_collections + 1
    /\ UNCHANGED successful_collections

\* "continue" at lines 125 and 138
Skip(why) ==
    /\ outcome' = Append(outcome, why) /\ pc' = "for"
    /\ UNCHANGED <<successful_collections, failed_collections>>

\* lines 120-125
CountDocuments ==
    /\ pc = "count"
    /\ \/ \E e \in MongoErrors : Raise(e) /\ UNCHANGED <<authFault, calls>>
       \/ \E n \in CountResults :
             /\ doc_count' = n
             /\ IF n = 0 THEN Skip("zero")
                ELSE /\ pc' = "find"
                     /\ UNCHANGED <<outcome, successful_collections,
                                    failed_collections>>
             /\ UNCHANGED <<worldV, storeV, setupV, endV, histV, pending, fatal,
                            authFault, calls, idx, batch, df, data, injected>>

\* lines 128-129
Find ==
    /\ pc = "find"
    /\ \/ \E e \in MongoErrors : Raise(e) /\ UNCHANGED <<authFault, calls>>
       \/ \E docs \in FindResults :
             /\ batch' = docs /\ df' = DataFrame(docs) /\ pc' = "drop"
             /\ UNCHANGED <<worldV, storeV, setupV, endV, histV, pending, fatal,
                            authFault, calls, idx, doc_count, data,
                            successful_collections, failed_collections, outcome,
                            injected>>

\* lines 132-138
DropAndCheck ==
    /\ pc = "drop"
    /\ \/ Raise("Exception") /\ UNCHANGED <<authFault, calls>>
       \/ /\ df' = DropId(df)
          /\ IF Empty(df') THEN Skip("empty")
             ELSE /\ pc' = "to_csv"
                  /\ UNCHANGED <<outcome, successful_collections,
                                 failed_collections>>
          /\ UNCHANGED <<worldV, storeV, setupV, endV, histV, pending, fatal,
                         authFault, calls, idx, batch, doc_count, data, injected>>

\* variant: the collection is counted as successful before the upload
ToCsvCountsEarly ==
    /\ pc = "to_csv"
    /\ \/ Raise("Exception") /\ UNCHANGED <<authFault, calls>>
       \/ /\ data' = to_csv(df) /\ pc' = "upload"
          /\ successful_collections' = successful_collections + 1
          /\ UNCHANGED <<worldV, storeV, setupV, endV, histV, pending, fatal,
                         authFault, calls, idx, batch, doc_count, df,
                         failed_collections, outcome, injected>>

\* lines 141-142
ToCsv ==
    /\ pc = "to_csv"
    /\ \/ Raise("Exception") /\ UNCHANGED <<authFault, calls>>
       \/ /\ data' = to_csv(df) /\ pc' = "upload"
          /\ UNCHANGED <<worldV, storeV, setupV, endV, histV, pending, fatal,
                         authFault, calls, idx, batch, doc_count, df, successful_collections,
                         failed_collections, outcome, injected>>

\* variant: the file is put beside the batch directory, not into it
FileKeyFlat == <<DirectoryName(env), FileName(collections[idx])>>

\* the file line 141 names
FileKey == <<directory_path, FileName(collections[idx])>>

\* lines 143-146
Upload ==
    /\ pc = "upload"
    /\ \/ \E e \in AzureErrors :
             /\ Raise(e)
             /\ authFault' = IF e = "ClientAuthenticationError" THEN "upload"
                             ELSE authFault
             /\ UNCHANGED calls
       \/ LET r == upload_data(files, FileKey, data, TRUE)
          IN IF r.raised = "ok"
             THEN /\ files' = r.files
                  /\ written' = written \cup {FileKey}
                  /\ successful_collections' = successful_collections + 1
                  /\ outcome' = Append(outcome, "ok")
                  /\ pc' = "for"
                  /\ UNCHANGED <<worldV, dirs, setupV, endV, histV, pending,
                                 fatal, authFault, calls, idx, batch, doc_count, df, data,
                                 failed_collections, injected>>
             ELSE ExceptUnit(r.raised) /\ UNCHANGED <<injected, authFault, calls>>

(***************************************************************************)
(* The end of the run, lines 152-179.                                      *)
(***************************************************************************)
\* variant: a run with failed collections exits with code 1
SummaryExitsOnFailure ==
    /\ pc = "summary"
    /\ summary' = Append(summary, <<successful_collections, failed_collections>>)
    /\ pc' = "finally"
    /\ pending' = IF failed_collections > 0 THEN "SystemExit" ELSE pending
    /\ UNCHANGED <<worldV, storeV, setupV, loopV, histV, fatal,
                   authFault, calls, finished, closes, exit_code>>

\* line 153
Summary ==
    /\ pc = "summary"
    /\ summary' = Append(summary, <<successful_collections, failed_collections>>)
    /\ pc' = "finally"
    /\ UNCHANGED <<worldV, storeV, setupV, loopV, histV, pending, fatal,
                   authFault, calls, finished, closes, exit_code>>

\* variant: the client is closed after the try statement, not in a finally
FinallyKeepsOpenOnExit ==
    /\ pc = "finally"
    /\ IF client # "undefined" /\ pending = "none"
       THEN client' = "closed" /\ closes' = closes + 1
       ELSE UNCHANGED <<client, closes>>
    /\ IF pending = "SystemExit"
       THEN pc' = "exited" /\ exit_code' = 1
       ELSE pc' = "final_log" /\ UNCHANGED exit_code
    /\ UNCHANGED <<worldV, storeV, loopV, histV, pending, fatal, authFault, calls,
                   missing_vars, collections, timestamp, directory_path,
                   stampClock, dirLog, dirPre, summary, finished>>

\* lines 174-177, then the pending SystemExit ends the process
Finally ==
    /\ pc = "finally"
    /\ IF client # "undefined"
       THEN client' = "closed" /\ closes' = closes + 1
       ELSE UNCHANGED <<client, closes>>
    /\ IF pending = "SystemExit"
       THEN pc' = "exited" /\ exit_code' = 1
       ELSE pc' = "final_log" /\ UNCHANGED exit_code
    /\ UNCHANGED <<worldV, storeV, loopV, histV, pending, fatal, authFault, calls,
                   missing_vars, collections, timestamp, directory_path,
                   stampClock, dirLog, dirPre, summary, finished>>

\* line 179 and the end of the script
FinalLog ==
    /\ pc = "final_log"
    /\ finished' = TRUE /\ exit_code' = 0 /\ pc' = "exited"
    /\ UNCHANGED <<worldV, storeV, setupV, loopV, histV, pending, fatal,
                   authFault, calls, summary, closes>>

(***************************************************************************)
(* The world around the process.                                           *)
(***************************************************************************)
\* A second passes.  Only line 100 and the start of a process read the clock,
\* so the clock moves before line 100 and between two runs.
Tick ==
    /\ clock < MaxClock
    /\ pc = "stamp" \/ (pc = "exited" /\ run = Runs[1])
    /\ clock' = clock + 1
    /\ UNCHANGED <<env, hist, run, storeV, setupV, loopV, endV, histV, pc,
                   pending, fatal, authFault, calls>>

\* The script is invoked again.
StartRun ==
    /\ pc = "exited" /\ run = Runs[1]
    /\ run' = Runs[2]
    /\ hist' = IF timestamp = "" THEN hist
               ELSE Append(hist, [started |-> started, stamp |-> stampClock,
                                  path |-> directory_path])
    /\ started' = clock /\ files0' = files
    /\ pc' = "start" /\ missing_vars' = <<>> /\ client' = "undefined"
    /\ collections' = <<>> /\ idx' = 0 /\ doc_count' = 0 /\ df' = NoFrame
    /\ data' = NoData /\ timestamp' = "" /\ directory_path' = ""
    /\ successful_collections' = 0 /\ failed_collections' = 0
    /\ pending' = "none" /\ exit_code' = -1
    /\ outcome' = <<>> /\ summary' = <<>> /\ fatal' = "none" /\ dirLog' = "none"
    /\ finished' = FALSE /\ closes' = 0
    /\ stampClock' = 0 /\ injected' = {} /\ batch' = <<>> /\ authFault' = "none" /\ dirPre' = FALSE
    /\ calls' = <<>>
    /\ written' = {}
    /\ UNCHANGED <<env, clock, dirs, files>>

Next ==
    \/ LoadDotenv \/ ReadConfig \/ Connect \/ Ping \/ ListCollections
    \/ AdlsClient \/ FsProps \/ Timestamp \/ MakeDirectory
    \/ ForNext \/ CountDocuments \/ Find \/ DropAndCheck \/ ToCsv \/ Upload
    \/ Summary \/ Finally \/ FinalLog
    \/ Tick \/ StartRun

Spec == Init /\ [][Next]_vars

(***************************************************************************)
(* Properties.                                                             *)
(***************************************************************************)
Count(seq, v) == Cardinality({ i \in 1..Len(seq) : seq[i] = v })

Exited == pc = "exited"

Summarized == summary # <<>>

\* the column names of a payload: the cells of its header line
Header(bytes) == { bytes[1][j] : j \in 1..Len(bytes[1]) }

\* the field names of a list of documents
Fields(docs) ==
    UNION { { docs[i][j][1] : j \in 1..Len(docs[i]) } : i \in 1..Len(docs) }

\* C1: failure isolation.  Every collection during which a call raised is
\* logged as failed and counted once in the failure counter and not in the
\* success counter; the run is not aborted by it: the later collections are
\* processed, the summary is logged and the loop ran over every collection.
C1_FailureIsolation ==
    /\ failed_collections = Cardinality(injected)
    /\ successful_collections = Count(outcome, "ok")
    /\ \A i \in injected : i <= Len(outcome) /\ outcome[i] = "error"
    /\ injected # {} =>
          /\ pending = "none" /\ fatal = "none"
          /\ Exited => /\ Summarized
                       /\ Len(outcome) = Len(collections)
                       /\ summary[1] = <<Count(outcome, "ok"), Cardinality(injected)>>

\* a call raised during the first of two collections and the second one was
\* uploaded all the same
C1_Witness ==
    /\ Exited /\ Len(collections) = 2 /\ injected = {1}
    /\ outcome = <<"error", "ok">> /\ summary = << <<1, 1>> >>

\* C2 as claimed: at the summary, success + failure = N - K, with N the number
\* of collections listed and K the number whose document count was zero.
C2_SumIsListedMinusZero ==
    Summarized =>
        summary[1][1] + summary[1][2] = Len(collections) - Count(outcome, "zero")

\* C2 as amended: at the summary, success + failure = N - K - E, with E the
\* number of collections whose frame was empty after the _id column was
\* dropped (they are skipped too).
C2_SumIsListedMinusSkipped ==
    Summarized =>
        /\ Len(outcome) = Len(collections)
        /\ summary[1][1] + summary[1][2] =
              Len(collections) - Count(outcome, "zero") - Count(outcome, "empty")

\* two collections: one had no documents, one had documents whose only field
\* is _id, neither is counted
C2_Witness ==
    /\ Exited /\ Len(collections) = 2
    /\ outcome = <<"zero", "empty">> /\ summary = << <<0, 0>> >>

\* C3: once the client exists, it is closed exactly once on every path on
\* which the process ends, and never twice.
C3_ClientClosedOnce ==
    /\ closes <= 1
    /\ client = "undefined" => closes = 0
    /\ client = "open" => closes = 0
    /\ client = "closed" => closes = 1
    /\ Exited => client \in {"undefined", "closed"}

\* the process ended with code 1 because the file system was not found, and
\* the client was closed
C3_Witness ==
    /\ Exited /\ exit_code = 1 /\ fatal = "fs_not_found"
    /\ client = "closed" /\ closes = 1

\* C4: when the destination store refuses the token, at whichever step, the
\* process ends with a non-zero exit code and without a summary.
C4_AuthFailureIsFatal ==
    (authFault # "none" /\ Exited) => (exit_code = 1 /\ ~Summarized)

\* C5: when the loop ran to its end, the process ends with code 0, whatever
\* the number of failed or skipped collections.
C5_LoopEndExitsZero ==
    (pc = "summary" \/ Summarized) =>
        /\ pending = "none"
        /\ Exited => exit_code = 0 /\ finished

\* every collection listed failed and the exit code is 0
C5_Witness ==
    /\ Exited /\ exit_code = 0 /\ Len(collections) = 2
    /\ summary = << <<0, 2>> >>

\* C6: a fatal error (no configuration, source unreachable, file system
\* missing, directory not created...) ends the process with a non-zero code
\* before the loop: nothing counted, nothing uploaded, no summary.
C6_FatalBeforeLoop ==
    fatal # "none" =>
        /\ pc \in {"finally", "exited"}
        /\ idx = 0 /\ outcome = <<>>
        /\ successful_collections = 0 /\ failed_collections = 0
        /\ written = {} /\ files = files0
        /\ ~Summarized /\ ~finished
        /\ Exited => exit_code = 1

\* the file system did not exist: exit code 1, nothing done
C6_Witness ==
    /\ Exited /\ fatal = "fs_not_found" /\ exit_code = 1
    /\ Len(collections) = 2 /\ timestamp = ""

\* C7: a collection with no documents, a collection whose frame is empty
\* after the _id column is dropped and a batch directory that exists already
\* are no failures: the failure counter counts the collections logged as
\* failed only, and the run is not aborted.
C7_BenignNotFailure ==
    /\ failed_collections = Count(outcome, "error")
    /\ \A i \in 1..Len(outcome) : outcome[i] \in {"zero", "empty"} => i \notin injected
    /\ (dirPre \/ dirLog = "exists" \/ Count(outcome, "zero") > 0
              \/ Count(outcome, "empty") > 0) =>
          /\ pending = "none" /\ fatal = "none"
          /\ pc \in {"for", "count", "find", "drop", "to_csv", "upload", "summary",
                     "finally", "final_log", "exited"}
          /\ Exited => (exit_code = 0 /\ Len(outcome) = Len(collections))

\* the directory existed, one collection had no documents, one had an empty
\* frame, and the run ended with code 0 and no failure
C7_Witness ==
    /\ Exited /\ dirLog = "exists" /\ outcome = <<"zero", "empty">>
    /\ failed_collections = 0 /\ exit_code = 0

\* C8: an upload onto a file that exists already (same batch directory, same
\* collection name), when the store raises no error of its own, succeeds and
\* replaces the content: the path holds the new bytes, no path is added or
\* removed, and every other file keeps its bytes.
C8_UploadOverwrites ==
    [][ (pc = "upload" /\ FileKey \in DOMAIN files /\ injected' = injected) =>
            /\ pc' = "for"
            /\ outcome' = Append(outcome, "ok")
            /\ successful_collections' = successful_collections + 1
            /\ DOMAIN files' = DOMAIN files
            /\ files'[FileKey] = data
            /\ \A k \in DOMAIN files \ {FileKey} : files'[k] = files[k]
      ]_vars

\* the second run uploaded a file over the one the first run had stored under
\* the same path, with other bytes, beside a file it did not touch
C8_Witness ==
    /\ run = Runs[2]
    /\ \E k \in written : k \in DOMAIN files0 /\ files[k] # files0[k]
    /\ \E k \in DOMAIN files0 \ written : files[k] = files0[k]
    /\ DOMAIN files = DOMAIN files0

\* C9 as claimed: two runs that start in different seconds use two distinct
\* batch directories, two runs that start in the same second share one.
C9_DirectoryByStartSecond ==
    \A i \in 1..Len(hist) :
        timestamp # "" =>
            /\ started # hist[i].started => directory_path # hist[i].path
            /\ started = hist[i].started => directory_path = hist[i].path

\* C9 as amended: the second of line 100 decides.  Two runs that read the
\* clock at line 100 in different seconds use two distinct batch directories
\* and the later run leaves every file of the earlier run's directory as it
\* was; two runs that read it in the same second share one directory, and the
\* later run is not ended by the directory existing.
C9_DirectoryByStampSecond ==
    \A i \in 1..Len(hist) :
        timestamp # "" =>
            /\ stampClock # hist[i].stamp =>
                  /\ directory_path # hist[i].path
                  /\ \A k \in DOMAIN files0 :
                        k[1] = hist[i].path =>
                            k \in DOMAIN files /\ files[k] = files0[k]
                  /\ \A k \in written : k[1] # hist[i].path
            /\ stampClock = hist[i].stamp =>
                  /\ directory_path = hist[i].path
                  /\ dirPre => (fatal = "none" /\ pending = "none")

\* the later run read the clock a second after the earlier one and uploaded a
\* file; the earlier run's file is still there
C9_Witness ==
    /\ Exited /\ Len(hist) = 1 /\ timestamp # ""
    /\ stampClock # hist[1].stamp
    /\ written # {}
    /\ \E k \in DOMAIN files0 : k[1] = hist[1].path

\* C10: the header of every payload, serialized or stored, has no _id column,
\* and the payload about to be uploaded has a column for every other field of
\* the documents read.
C10_NoIdColumn ==
    /\ \A k \in DOMAIN files : "_id" \notin Header(files[k])
    /\ pc = "upload" =>
          /\ "_id" \notin Header(data)
          /\ Fields(batch) \ {"_id"} \subseteq Header(data)
          /\ Header(data) \subseteq Fields(batch)
          /\ Len(data) = 1 + Len(batch)

\* two documents with _id and different fields are about to be uploaded
C10_Witness ==
    /\ pc = "upload" /\ batch = <<DocA, DocB>>
    /\ data = << <<"a", "b">>, <<"x", "">>, <<"", "y">> >>

\* the calls the script makes to the two stores before the loop, in order
SetupCalls == <<"ping", "list", "fs_props", "create_directory">>

IsPrefix(a, b) == Len(a) <= Len(b) /\ \A i \in 1..Len(a) : a[i] = b[i]

\* the loop has been entered, or the run is past it
InOrPastLoop ==
    pc \in {"for", "count", "find", "drop", "to_csv", "upload", "summary",
            "final_log"} \/ Summarized

\* C11 as claimed: the list of collections is requested from the source only
\* after the destination's file system check.
C11_ListAfterContainerCheck ==
    \A i \in 1..Len(calls) :
        calls[i] = "list" => \E j \in 1..(i - 1) : calls[j] = "fs_props"

\* C11 as amended: the source is pinged, then the list of collections is
\* requested, and only then is the destination's file system checked; the
\* three precede the batch directory and the first collection.
C11_ListBeforeContainerCheck ==
    /\ IsPrefix(calls, SetupCalls)
    /\ pc \in {"adls_client", "fs_props"} => Len(calls) = 2
    /\ pc \in {"stamp", "mkdir"} => Len(calls) = 3
    /\ (InOrPastLoop \/ timestamp # "") => Len(calls) >= 3

\* the file system was checked, after the ping and the listing
C11_Witness ==
    /\ pc = "stamp" /\ calls = <<"ping", "list", "fs_props">>
    /\ Len(collections) = 2

\* C12: the destination's file system is checked once per run, before the
\* loop and never inside it; when it does not exist the run ends with a
\* non-zero exit code with no directory made and no collection read.
C12_ContainerCheckedOnce ==
    /\ Count(calls, "fs_props") <= 1
    /\ (InOrPastLoop \/ timestamp # "") => Count(calls, "fs_props") = 1
    /\ fatal = "fs_not_found" =>
          /\ Count(calls, "fs_props") = 1 /\ Count(calls, "create_directory") = 0
          /\ timestamp = "" /\ dirLog = "none" /\ directory_path \notin dirs
          /\ idx = 0 /\ outcome = <<>> /\ batch = <<>>
          /\ pc \in {"finally", "exited"}
          /\ Exited => exit_code = 1

\* two collections were processed after a single check of the file system
C12_Witness ==
    /\ Exited /\ Len(outcome) = 2 /\ Count(calls, "fs_props") = 1
    /\ exit_code = 0

\* what the handlers of the source block and of the destination block log
SourceFatal == {"mongo_connection", "mongo_operation", "unexpected"}
DestinationFatal == {"adls_auth", "adls_error", "fs_not_found"}

\* C13: an empty list of collections is no failure.  When the listing did not
\* raise and returned no collection, only the destination can end the run;
\* when it does not, the summary reports 0 migrated and 0 failed and the exit
\* code is 0.
C13_EmptyListNotFailure ==
    (Len(calls) >= 2 /\ collections = <<>> /\ fatal \notin SourceFatal) =>
        /\ fatal \in {"none"} \cup DestinationFatal
        /\ idx = 0 /\ outcome = <<>>
        /\ (fatal = "none" /\ Exited) =>
              /\ summary = << <<0, 0>> >> /\ exit_code = 0 /\ finished

\* no collection was listed, the destination answered, and the run ended with
\* a summary of 0 and 0 and exit code 0
C13_Witness ==
    /\ Exited /\ calls = SetupCalls /\ collections = <<>>
    /\ summary = << <<0, 0>> >> /\ exit_code = 0

\* C14: the list of collections is requested once and the batch directory is
\* made once per run, both before the first collection; every upload goes
\* into that directory, and none happens before line 105 was passed (the
\* directory created, or found to exist).
C14_OneListOneDirectory ==
    /\ Count(calls, "list") <= 1 /\ Count(calls, "create_directory") <= 1
    /\ idx > 0 =>
          /\ Count(calls, "list") = 1 /\ Count(calls, "create_directory") = 1
          /\ calls[Len(calls)] = "create_directory"
          /\ dirLog \in {"created", "exists"}
          /\ directory_path \in dirs
    /\ \A k \in written : k[1] = directory_path
    /\ written # {} => dirLog \in {"created", "exists"}
    /\ pc = "upload" => (FileKey[1] = directory_path /\ dirLog # "none")

\* two files were uploaded into the one batch directory of the run
C14_Witness ==
    /\ Exited /\ calls = SetupCalls /\ Cardinality(written) = 2
    /\ \A k \in written : k[1] = directory_path

\* the names the path could be built from
Labels == {DirectoryName(env), env.MONGODB_DATABASE}

\* C15 as claimed: the path of the batch directory has three components, a
\* base directory, a database label and the timestamp.
C15_PathHasThreeComponents ==
    timestamp # "" =>
        \E base \in Labels, label \in Labels :
            directory_path = base \o "/" \o label \o "/" \o timestamp

\* C15 as amended: the path has two components, the directory name and the
\* timestamp; the directory name is ADLS_DIRECTORY_NAME when it is set and
\* the database name when it is not; the timestamp is the clock of line 100
\* as YYYYMMDD_HHMMSS.
C15_PathHasTwoComponents ==
    timestamp # "" =>
        /\ directory_path =
              (IF env.ADLS_DIRECTORY_NAME = None THEN env.MONGODB_DATABASE
               ELSE env.ADLS_DIRECTORY_NAME) \o "/" \o timestamp
        /\ Len(timestamp) = 15
        /\ stampClock = 0 => timestamp = "20240101_235959"
        /\ stampClock = 1 => timestamp = "20240102_000000"
        /\ stampClock = 2 => timestamp = "20240102_000001"

\* ADLS_DIRECTORY_NAME is set and the batch directory was made under it
C15_Witness ==
    /\ pc = "for" /\ env.ADLS_DIRECTORY_NAME = "lake"
    /\ directory_path = "lake/20240102_000000"

\* the file of the i-th collection in the batch directory of the run
FileOf(i) == <<directory_path, FileName(collections[i])>>

\* C16: at the summary the batch directory holds a file <collection>.csv
\* written by this run exactly for the collections counted as successful; for
\* a failed or skipped collection the store holds what it held when the run
\* started; the success counter is the number of files the run wrote.
C16_FilesIffSuccessful ==
    /\ successful_collections = Cardinality(written)
    /\ written \subseteq DOMAIN files
    /\ Summarized =>
          \A i \in 1..Len(collections) :
              /\ FileOf(i) \in written <=> outcome[i] = "ok"
              /\ outcome[i] # "ok" =>
                    IF FileOf(i) \in DOMAIN files0
                    THEN FileOf(i) \in DOMAIN files /\ files[FileOf(i)] = files0[FileOf(i)]
                    ELSE FileOf(i) \notin DOMAIN files

\* a summarized run with one file written and one collection without a file
C16_Witness ==
    /\ Summarized /\ Len(collections) = 2
    /\ outcome[1] = "ok" /\ outcome[2] = "error"
    /\ written = {FileOf(1)} /\ FileOf(2) \notin DOMAIN files

\* the positions inside the loop body
InBody == pc \in {"count", "find", "drop", "to_csv", "upload"}

Skipped == Count(outcome, "zero") + Count(outcome, "empty")

C17_Accounting ==
    /\ successful_collections + failed_collections + Skipped = Len(outcome)
    /\ successful_collections = Count(outcome, "ok")
    /\ failed_collections = Count(outcome, "error")
    /\ Len(outcome) = IF InBody THEN idx - 1 ELSE idx
    /\ idx <= Len(collections)
    /\ Summarized => Len(outcome) = Len(collections)

C17_Step ==
    run' = run =>
        /\ idx' \in {idx, idx + 1}
        /\ successful_collections' \in {successful_collections, successful_collections + 1}
        /\ failed_collections' \in {failed_collections, failed_collections + 1}
        /\ Len(outcome') - Len(outcome) =
              (successful_collections' - successful_collections)
              + (failed_collections' - failed_collections)
              + (IF Len(outcome') > Len(outcome)
                    /\ outcome'[Len(outcome')] \in {"zero", "empty"} THEN 1 ELSE 0)
        /\ Len(outcome') \in {Len(outcome), Len(outcome) + 1}
        /\ \A i \in 1..Len(outcome) : outcome'[i] = outcome[i]

\* C17: every listed collection is taken once, in order, and ends in one
\* outcome: successful, failed or skipped.  Within a run the two counters
\* never decrease and a step adds at most 1 to one of them, together with
\* the outcome of one collection; successful + failed + skipped is the number
\* of collections processed so far, and the length of the list at the summary.
C17_OneOutcomePerUnit == []C17_Accounting /\ [][C17_Step]_vars

\* a summarized run with one collection of each outcome class
C17_Witness ==
    /\ Summarized /\ Len(collections) = 2 /\ idx = 2
    /\ outcome = <<"zero", "ok">>
    /\ successful_collections = 1 /\ failed_collections = 0

\* C18: the summary is logged at most once per run and only after the loop
\* took every listed collection; a run ended by a fatal error logs neither
\* the summary nor the last line of the script; when the last line is logged
\* the exit code is 0.
C18_SummaryAndFinalLog ==
    /\ Len(summary) <= 1
    /\ Summarized => (idx = Len(collections) /\ Len(outcome) = Len(collections))
    /\ (fatal # "none" \/ pending = "SystemExit" \/ exit_code = 1) =>
          (~Summarized /\ ~finished)
    /\ finished => (exit_code = 0 /\ Summarized /\ fatal = "none")
    /\ Exited => (exit_code = 0 <=> finished)

\* a run with collections listed was ended by a destination fault
C18_Witness ==
    /\ Exited /\ fatal \in DestinationFatal /\ collections # <<>>
    /\ exit_code = 1 /\ ~Summarized /\ ~finished

====
